---- MODULE Spec2Model ----
(***************************************************************************)
(* The 3% Dilemma Calculator: the App component (src/ResultsDisplay.tsx,   *)
(* lines 125-505), its calculateFinancials computation, the three         *)
(* generative-language collaborators and the ConsultantForm component      *)
(* (src/ConsultantForm.tsx).                                               *)
(*                                                                         *)
(* Numbers.  The program computes in IEEE doubles.  The model computes in  *)
(* exact integers at fixed resolutions:                                    *)
(*   - money inputs (FinancialData) are whole dollars;                     *)
(*   - interest rates are held in 1/RateScale of a percent;                *)
(*   - money results (CalculationResults) are held in 1/Cents of a dollar; *)
(*   - DTI ratios are held in 1/DTIScale of a percent;                     *)
(*   - the monthly rate is held in 1/RateOne;                              *)
(*   - the sum 1 + monthlyRate and its powers are held in 1/One.           *)
(* Every division rounds towards minus infinity, so the sign of a result   *)
(* (x >= 0, x < 0) is the sign of the exact quotient.                      *)
(* As a double, a number of the model has a smallest positive value and a  *)
(* coarser spacing near 1: an annual rate can be positive and its monthly  *)
(* rate 0 (in the program: below 1200 * 2^-1075 percent), and a monthly    *)
(* rate can be positive and 1 + monthlyRate still be 1 (in the program:    *)
(* below 2^-53).  A division by zero gives Infinity, -Infinity or NaN.     *)
(***************************************************************************)
EXTENDS Integers, Sequences, FiniteSets, TLC

\* ------------------------------------------------------------------------
\* Resolutions of the arithmetic
\* ------------------------------------------------------------------------
Cents == 10 * 10
RateScale == 10 ^ 5
DTIScale == 10 * 10
One == 10 ^ 6
RateOne == 10 ^ 8

\* ------------------------------------------------------------------------
\* Exact multiply-then-divide that never leaves 32-bit integers
\* ------------------------------------------------------------------------
RECURSIVE MulDivMod(_, _, _)
\* <<quotient, remainder>> of a * b by c, for a >= 0, b >= 0, c > 0, taking b
\* one decimal digit at a time (no intermediate value exceeds 10 * c + 9 * a).
MulDivMod(a, b, c) ==
    IF b = 0 THEN <<0, 0>>
    ELSE LET prev == MulDivMod(a, b \div 10, c)
             t    == 10 * prev[2] + a * (b % 10)
         IN  <<10 * prev[1] + (t \div c), t % c>>

\* floor(a * b / c) for any integer a, and b >= 0, c > 0.
MulDiv(a, b, c) ==
    IF a >= 0 THEN MulDivMod(a, b, c)[1]
    ELSE LET qr == MulDivMod(-a, b, c)
         IN  IF qr[2] = 0 THEN -qr[1] ELSE -(qr[1] + 1)

\* Product of two fixed-point numbers of resolution 1/One.
FMul(x, y) == MulDiv(x, y, One)

RECURSIVE Pow(_, _)
\* Math.pow(x, n) for a fixed-point base x and a whole exponent n >= 0.
Pow(x, n) ==
    IF n = 0 THEN One
    ELSE IF n % 2 = 0 THEN LET h == Pow(x, n \div 2) IN FMul(h, h)
    ELSE FMul(x, Pow(x, n - 1))

Max(a, b) == IF a >= b THEN a ELSE b

\* ------------------------------------------------------------------------
\* Program constants of calculateFinancials
\* ------------------------------------------------------------------------
\* const numberOfPayments = 30 * 12
numberOfPayments == 30 * 12
\* sellingCosts = currentHomeValue * 0.08, in hundredths
SellingCostPct == 8
\* (newHomePrice * 0.0125) / 12 and (newHomePrice * 0.005) / 12, in 1/10000
TaxFallbackPer10000 == 125
InsuranceFallbackPer10000 == 50

\* ------------------------------------------------------------------------
\* The user-visible messages
\* ------------------------------------------------------------------------
NoError == ""
ErrHomeValue == "Estimated Home Value must be greater than zero."
ErrNewPrice == "New Home Purchase Price must be greater than zero."
ErrNewRate == "Estimated New Interest Rate must be greater than zero."
ErrIncome == "Gross Monthly Income must be greater than zero to calculate DTI."
WarnEquity == "Warning: Your estimated selling costs are more than your home equity."

\* null, for the slots that hold a record or null
Null == [null |-> TRUE]

\* ------------------------------------------------------------------------
\* calculateFinancials, as a function of the data its closure holds
\* ------------------------------------------------------------------------
\* Mutant: the income rule is checked first.
ValidationErrorIncomeFirst(d) ==
    IF d.monthlyIncome <= 0 THEN ErrIncome
    ELSE IF d.currentHomeValue <= 0 THEN ErrHomeValue
    ELSE IF d.newHomePrice <= 0 THEN ErrNewPrice
    ELSE IF d.newInterestRate <= 0 THEN ErrNewRate
    ELSE NoError

\* The message of the first failing validation rule, NoError when all pass.
ValidationError(d) ==
    IF d.currentHomeValue <= 0 THEN ErrHomeValue
    ELSE IF d.newHomePrice <= 0 THEN ErrNewPrice
    ELSE IF d.newInterestRate <= 0 THEN ErrNewRate
    ELSE IF d.monthlyIncome <= 0 THEN ErrIncome
    ELSE NoError

\* sellingCosts and proceedsFromSale, in cents.
SellingCosts(d) == d.currentHomeValue * SellingCostPct

\* Mutant: negative proceeds are clamped to 0 in the result.
ProceedsFromSaleClamped(d) ==
    Max(0, d.currentHomeValue * Cents - d.currentMortgageBalance * Cents - SellingCosts(d))

ProceedsFromSale(d) ==
    d.currentHomeValue * Cents - d.currentMortgageBalance * Cents - SellingCosts(d)

\* Mutant: the Math.max(0, ...) is missing.
DownPaymentUnclamped(d) == ProceedsFromSale(d)

DownPayment(d) == Max(0, ProceedsFromSale(d))
NewLoanAmount(d) == d.newHomePrice * Cents - DownPayment(d)

\* Mutant: the heuristic is used also when details are present.
MonthlyPropertyTaxFallbackOnly(d) ==
    MulDiv(d.newHomePrice, TaxFallbackPer10000, 12 * Cents)

MonthlyPropertyTax(d) ==
    IF d.newHomeDetails # Null
    THEN MulDiv(d.newHomeDetails.estimatedTaxes, Cents, 12)
    ELSE MulDiv(d.newHomePrice, TaxFallbackPer10000, 12 * Cents)

MonthlyInsurance(d) ==
    IF d.newHomeDetails # Null
    THEN MulDiv(d.newHomeDetails.estimatedInsurance, Cents, 12)
    ELSE MulDiv(d.newHomePrice, InsuranceFallbackPer10000, 12 * Cents)

\* monthlyRate = newInterestRate / 100 / 12, in 1/RateOne.
MonthlyRate(d) == MulDiv(d.newInterestRate, RateOne, RateScale * 100 * 12)

\* 1 + monthlyRate, in 1/One: the part of the rate below 1/One is lost.
OnePlusMonthlyRate(d) == One + MonthlyRate(d) \div (RateOne \div One)

\* Math.pow(1 + monthlyRate, numberOfPayments) - 1
AmortizationDenominator(d) == Pow(OnePlusMonthlyRate(d), numberOfPayments) - One

\* The results of a division by zero.
PosInf == [nonFinite |-> "Infinity"]
NegInf == [nonFinite |-> "-Infinity"]
NaN == [nonFinite |-> "NaN"]

\* The amortization formula divides by zero: the monthly rate is positive and
\* too small to change 1 (then the power is 1 as well).
DividesByZero(d) == MonthlyRate(d) > 0 /\ OnePlusMonthlyRate(d) = One

PrincipalAndInterest(d) ==
    LET r   == MonthlyRate(d)
        den == AmortizationDenominator(d)
    IN  IF r > 0
        THEN IF den = 0
             THEN IF NewLoanAmount(d) > 0 THEN PosInf
                  ELSE IF NewLoanAmount(d) < 0 THEN NegInf
                  ELSE NaN
             ELSE MulDiv(NewLoanAmount(d), MulDiv(r, den + One, RateOne), den)
        ELSE MulDiv(NewLoanAmount(d), 1, numberOfPayments)

\* Infinity, -Infinity and NaN stay what they are when a finite number is added.
NewMonthlyPayment(d) ==
    IF DividesByZero(d) THEN PrincipalAndInterest(d)
    ELSE PrincipalAndInterest(d) + MonthlyPropertyTax(d) + MonthlyInsurance(d)

TotalMonthlyDebt(d) == d.autoDebt + d.studentDebt + d.creditCardDebt + d.otherDebt

\* currentDTI = (currentTotalMonthlyPayments / monthlyIncome) * 100
CurrentDTI(d) ==
    MulDiv(d.currentMonthlyPayment + TotalMonthlyDebt(d), 100 * DTIScale, d.monthlyIncome)

\* Mutant: the new total leaves otherDebt out.
NewDTIWithoutOtherDebt(d, newMonthlyPayment) ==
    IF DividesByZero(d) THEN newMonthlyPayment
    ELSE MulDiv(newMonthlyPayment
                  + (d.autoDebt + d.studentDebt + d.creditCardDebt) * Cents,
                (100 * DTIScale) \div Cents, d.monthlyIncome)

\* newDTI = (newTotalMonthlyPayments / monthlyIncome) * 100, from the new payment
NewDTI(d, newMonthlyPayment) ==
    IF DividesByZero(d) THEN newMonthlyPayment
    ELSE MulDiv(newMonthlyPayment + TotalMonthlyDebt(d) * Cents,
                (100 * DTIScale) \div Cents, d.monthlyIncome)

MonthlyPaymentDifference(d, newMonthlyPayment) ==
    IF DividesByZero(d) THEN newMonthlyPayment
    ELSE newMonthlyPayment - d.currentMonthlyPayment * Cents

\* Mutant: a negative loan amount is refused like a validation failure.
CalcReturnRejectsNegativeLoan(d) ==
    IF ValidationError(d) # NoError \/ NewLoanAmount(d) < 0 THEN Null
    ELSE LET newMonthlyPayment == NewMonthlyPayment(d)
         IN  [ proceedsFromSale         |-> ProceedsFromSale(d),
               newLoanAmount            |-> NewLoanAmount(d),
               newMonthlyPayment        |-> newMonthlyPayment,
               currentDTI               |-> CurrentDTI(d),
               newDTI                   |-> NewDTI(d, newMonthlyPayment),
               monthlyPaymentDifference |-> MonthlyPaymentDifference(d, newMonthlyPayment) ]

\* The value calculateFinancials returns: Null, or the six-field result.
CalcReturn(d) ==
    IF ValidationError(d) # NoError THEN Null
    ELSE LET newMonthlyPayment == NewMonthlyPayment(d)
         IN  [ proceedsFromSale         |-> ProceedsFromSale(d),
               newLoanAmount            |-> NewLoanAmount(d),
               newMonthlyPayment        |-> newMonthlyPayment,
               currentDTI               |-> CurrentDTI(d),
               newDTI                   |-> NewDTI(d, newMonthlyPayment),
               monthlyPaymentDifference |-> MonthlyPaymentDifference(d, newMonthlyPayment) ]

\* Mutant: no warning is set for negative proceeds.
CalcErrorNoWarning(d) == ValidationError(d)

\* The message calculateFinancials leaves in the error slot.
CalcError(d) ==
    IF ValidationError(d) # NoError THEN ValidationError(d)
    ELSE IF ProceedsFromSale(d) < 0 THEN WarnEquity
    ELSE NoError

\* ------------------------------------------------------------------------
\* ResultsDisplay: the colour classes of the two differences
\* ------------------------------------------------------------------------
Red == "text-red-500"
Amber == "text-amber-600"
Green == "text-green-600"
\* The DTI, in percent, above which the new DTI is shown in red.
DTIThreshold == 43

\* Mutant: the comparison with the current DTI is made first.
dtiDiffColorAmberFirst(r) ==
    IF r.newDTI > r.currentDTI THEN Amber
    ELSE IF r.newDTI > DTIThreshold * DTIScale THEN Red
    ELSE Green

dtiDiffColor(r) ==
    IF r.newDTI > DTIThreshold * DTIScale THEN Red
    ELSE IF r.newDTI > r.currentDTI THEN Amber
    ELSE Green

InitialData ==
    [ currentHomeValue       |-> 500000,
      currentMortgageBalance |-> 250000,
      currentInterestRate    |-> 300000,
      currentMonthlyPayment  |-> 1800,
      currentHomeAddress     |-> "",
      newHomePrice           |-> 750000,
      newInterestRate        |-> 650000,
      newHomeAddress         |-> "",
      monthlyIncome          |-> 10000,
      autoDebt               |-> 500,
      studentDebt            |-> 300,
      creditCardDebt         |-> 200,
      otherDebt              |-> 0,
      newHomeDetails         |-> Null ]

\* ------------------------------------------------------------------------
\* getEstimatedHomeValue: the response text of the model, as characters
\* ------------------------------------------------------------------------
Digits == <<"0", "1", "2", "3", "4", "5", "6", "7", "8", "9">>
IsDigit(c) == \E i \in 1..10 : Digits[i] = c
DigitValue(c) == (CHOOSE i \in 1..10 : Digits[i] = c) - 1

\* text.replace(/[^0-9]/g, '')
OnlyDigits(text) == SelectSeq(text, IsDigit)

RECURSIVE ParseDigits(_)
\* parseInt of a string of digits; NaN for the empty string.
ParseDigits(ds) ==
    IF Len(ds) = 0 THEN 0
    ELSE 10 * ParseDigits(SubSeq(ds, 1, Len(ds) - 1)) + DigitValue(ds[Len(ds)])

\* parseInt(text.replace(/[^0-9]/g, ''), 10): NaN when no digit is left.
ParseInt(text) ==
    LET ds == OnlyDigits(text)
    IN  IF Len(ds) = 0 THEN [isNaN |-> TRUE, value |-> 0]
        ELSE [isNaN |-> FALSE, value |-> ParseDigits(ds)]

ErrValue == "Could not estimate a value for this address. Please enter a value manually."
ErrDetails == "Could not retrieve details for the new address. Please check the address and try again."
ErrAnalysisText == "There was an error generating the analysis. Please check your API key and try again."

\* What the collaborator may answer: a response text, or a transport error.
SampleDetails ==
    [estimatedTaxes |-> 9000, estimatedInsurance |-> 2400, marketTrends |-> "stable"]
TransportError == [failed |-> TRUE]
Answer(body) == [failed |-> FALSE, body |-> body]
\* The texts of the home-value model: a single integer, no number, zero.
ValueResponses ==
    { Answer(<<"6", "0", "0", "0", "0", "0">>), Answer(<<"n", "/", "a">>), Answer(<<"0">>),
      TransportError }
\* Texts that mix digits with other characters: a sentence that names two
\* numbers ("5 or 6") and a number with its currency ("$600000 USD").
MixedValueResponses ==
    { Answer(<<"5", " ", "o", "r", " ", "6">>),
      Answer(<<"$", "6", "0", "0", "0", "0", "0", " ", "U", "S", "D">>) }
\* The objects JSON.parse gives for the details: complete, with a field that is
\* 0 or "", and with a field that is missing.
DetailsResponses ==
    { Answer(SampleDetails),
      Answer([estimatedTaxes |-> 0, estimatedInsurance |-> 2400, marketTrends |-> "stable"]),
      Answer([estimatedTaxes |-> 9000, estimatedInsurance |-> 2400, marketTrends |-> ""]),
      Answer([estimatedTaxes |-> 9000, marketTrends |-> "stable"]),
      TransportError }
AnalysisResponses == { Answer("**TL;DR: The Bottom Line**"), TransportError }

\* The outcome of getEstimatedHomeValue: [ok |-> TRUE, value |-> n] or a throw.
EstimatedHomeValue(resp) ==
    IF resp.failed THEN [ok |-> FALSE, message |-> ErrValue]
    ELSE LET value == ParseInt(resp.body)
         IN  IF value.isNaN \/ value.value = 0
             THEN [ok |-> FALSE, message |-> ErrValue]
             ELSE [ok |-> TRUE, value |-> value.value]

\* !details[field]: the field is missing (undefined), 0 or "".
Falsy(details, field) ==
    \/ field \notin DOMAIN details
    \/ details[field] = (IF field = "marketTrends" THEN "" ELSE 0)

\* Mutant: only a missing field is refused, not a 0 or an empty text.
NewHomeDetailsOfMissingOnly(resp) ==
    IF resp.failed THEN [ok |-> FALSE, message |-> ErrDetails]
    ELSE LET details == resp.body
         IN  IF DOMAIN details # {"estimatedTaxes", "estimatedInsurance", "marketTrends"}
             THEN [ok |-> FALSE, message |-> ErrDetails]
             ELSE [ok |-> TRUE, value |-> details]

\* The outcome of getNewHomeDetails.
NewHomeDetailsOf(resp) ==
    IF resp.failed THEN [ok |-> FALSE, message |-> ErrDetails]
    ELSE LET details == resp.body
         IN  IF Falsy(details, "estimatedTaxes") \/ Falsy(details, "estimatedInsurance")
                  \/ Falsy(details, "marketTrends")
             THEN [ok |-> FALSE, message |-> ErrDetails]
             ELSE [ok |-> TRUE, value |-> details]

\* The text getFinancialAnalysis resolves to: it never rejects.
FinancialAnalysisOf(resp) ==
    IF resp.failed THEN ErrAnalysisText ELSE resp.body

\* ------------------------------------------------------------------------
\* simpleMarkdownToHtml: a text is its lines (what split('\n') gives), a line
\* is its characters; a marker or a tag that the text contains is one element
\* of the line, and so is each tag the function writes. The class attributes
\* of the tags are left out.
\* ------------------------------------------------------------------------
Bold == "**"
Strong == "<strong>"
StrongEnd == "</strong>"
TLDR == "TL;DR: The Bottom Line"
Disclaimer == "This is an AI-generated analysis"
\* One of the five emoji that start a section.
SectionEmoji == "(money bag emoji)"

\* line.replace(/\*\*(.*?)\*\*/g, '<strong>$1</strong>'): the pattern does not
\* cross a line break, so the replacement works line by line.
RECURSIVE boldedMarkdown(_)
boldedMarkdown(line) ==
    IF line = <<>> THEN <<>>
    ELSE IF Head(line) = Bold /\ \E i \in 2..Len(line) : line[i] = Bold
         THEN LET close == CHOOSE i \in 2..Len(line) :
                               /\ line[i] = Bold
                               /\ \A k \in 2..(i - 1) : line[k] # Bold
              IN  <<Strong>> \o SubSeq(line, 2, close - 1) \o <<StrongEnd>>
                     \o boldedMarkdown(SubSeq(line, close + 1, Len(line)))
         ELSE <<Head(line)>> \o boldedMarkdown(Tail(line))

RECURSIVE TrimStart(_)
TrimStart(line) ==
    IF line # <<>> /\ Head(line) = " " THEN TrimStart(Tail(line)) ELSE line

RECURSIVE TrimEnd(_)
TrimEnd(line) ==
    IF line # <<>> /\ line[Len(line)] = " "
    THEN TrimEnd(SubSeq(line, 1, Len(line) - 1)) ELSE line

\* line.trim()
Trim(line) == TrimEnd(TrimStart(line))

RECURSIVE DropBlankStart(_)
DropBlankStart(lines) ==
    IF lines # <<>> /\ Trim(Head(lines)) = <<>> THEN DropBlankStart(Tail(lines))
    ELSE lines

RECURSIVE DropBlankEnd(_)
DropBlankEnd(lines) ==
    IF lines # <<>> /\ Trim(lines[Len(lines)]) = <<>>
    THEN DropBlankEnd(SubSeq(lines, 1, Len(lines) - 1)) ELSE lines

\* text.trim().split('\n'): the blank lines at both ends go, the first line
\* loses its leading blanks and the last line its trailing ones; a text of
\* blanks only is one empty line.
TrimmedLines(text) ==
    LET kept == DropBlankEnd(DropBlankStart(text))
    IN  IF kept = <<>> THEN << <<>> >>
        ELSE LET first == [kept EXCEPT ![1] = TrimStart(@)]
             IN  [first EXCEPT ![Len(first)] = TrimEnd(@)]

StartsWith(line, prefix) ==
    Len(line) >= Len(prefix) /\ SubSeq(line, 1, Len(prefix)) = prefix

\* line.includes(part)
Includes(line, part) ==
    \E i \in 1..(Len(line) - Len(part) + 1) :
        SubSeq(line, i, i + Len(part) - 1) = part

\* The part pushed for a line that is neither a list item nor blank.
BlockPart(line, trimmedLine) ==
    IF Includes(line, <<Strong, TLDR, StrongEnd>>)
    THEN <<"<h2>">> \o line \o <<"</h2>">>
    ELSE IF StartsWith(line, <<SectionEmoji>>)
    THEN <<"<h3>">> \o line \o <<"</h3>">>
    ELSE IF StartsWith(trimmedLine, <<"#", "#", "#", " ">>)
    THEN <<"<h3>">> \o SubSeq(trimmedLine, 5, Len(trimmedLine)) \o <<"</h3>">>
    ELSE IF Includes(line, <<Disclaimer>>)
    THEN <<"<p>">> \o line \o <<"</p>">>
    ELSE <<"<p>">> \o line \o <<"</p>">>

\* The for loop over the lines and the closing of a list that is still open;
\* the value is htmlParts.
RECURSIVE htmlParts(_, _)
htmlParts(lines, inList) ==
    IF lines = <<>> THEN IF inList THEN << <<"</ul>">> >> ELSE <<>>
    ELSE LET line == Head(lines)
             trimmedLine == Trim(line)
         IN  IF StartsWith(trimmedLine, <<"-", " ">>)
             THEN (IF ~inList THEN << <<"<ul>">> >> ELSE <<>>)
                    \o << <<"<li>">> \o SubSeq(trimmedLine, 3, Len(trimmedLine))
                             \o <<"</li>">> >>
                    \o htmlParts(Tail(lines), TRUE)
             ELSE (IF inList THEN << <<"</ul>">> >> ELSE <<>>)
                    \o (IF trimmedLine = <<>> THEN <<>>
                        ELSE << BlockPart(line, trimmedLine) >>)
                    \o htmlParts(Tail(lines), FALSE)

\* htmlParts.join('\n'), the line breaks between the parts left out.
RECURSIVE Joined(_)
Joined(parts) == IF parts = <<>> THEN <<>> ELSE Head(parts) \o Joined(Tail(parts))

\* The markup simpleMarkdownToHtml returns for a text.
simpleMarkdownToHtml(markdown) ==
    IF markdown = << <<>> >> THEN <<>>
    ELSE Joined(htmlParts(TrimmedLines([i \in 1..Len(markdown) |->
                                          boldedMarkdown(markdown[i])]), FALSE))

\* Lines of an analysis text: blank, list items (also indented), near misses
\* of a list item, a paragraph, the three kinds of heading, the disclaimer, and
\* lines in which the text itself holds a list tag.
MarkdownLines ==
    { <<>>,
      <<"-", " ", "a">>,
      <<" ", "-", " ", "a", " ">>,
      <<"-", "a">>,
      <<"a">>,
      <<Bold, TLDR, Bold>>,
      <<"#", "#", "#", " ", "a">>,
      <<SectionEmoji, " ", "a">>,
      <<Disclaimer>>,
      <<"-", " ", "a", "</ul>">>,
      <<"<ul>">> }
\* The longest analysis text followed, in lines.
MaxLines == 3
MarkdownTexts == UNION { [1..n -> MarkdownLines] : n \in 1..MaxLines }

\* ------------------------------------------------------------------------
\* ConsultantForm: validateForm over the typed texts, held as characters
\* ------------------------------------------------------------------------
EmptyForm == [name |-> <<>>, email |-> <<>>, phone |-> <<>>]
NoErrors == [name |-> "", email |-> "", phone |-> ""]

IsSpace(c) == c = " "
\* !text.trim()
IsBlank(text) == \A i \in 1..Len(text) : IsSpace(text[i])

\* /\S+@\S+\.\S+/.test(text)
MatchesEmail(text) ==
    \E i \in 2..Len(text) : \E j \in (i + 2)..(Len(text) - 1) :
        /\ text[i] = "@"
        /\ text[j] = "."
        /\ ~IsSpace(text[i - 1])
        /\ \A k \in (i + 1)..(j - 1) : ~IsSpace(text[k])
        /\ ~IsSpace(text[j + 1])

\* /^\d{10,}$/.test(text.replace(/\D/g, ''))
MatchesPhone(text) == Len(OnlyDigits(text)) >= 10

NewErrors(f) ==
    [ name  |-> IF IsBlank(f.name) THEN "Name is required." ELSE "",
      email |-> IF IsBlank(f.email) THEN "Email is required."
                ELSE IF ~MatchesEmail(f.email) THEN "Email is invalid." ELSE "",
      phone |-> IF IsBlank(f.phone) THEN "Phone number is required."
                ELSE IF ~MatchesPhone(f.phone) THEN "Phone number must be at least 10 digits."
                ELSE "" ]

\* The value validateForm returns (isValid).
validateForm(f) == NewErrors(f) = NoErrors

ErrSubmitNetwork == "A network error occurred. Please check your connection and try again."
ErrSubmitOther == "Failed to submit your request. Please try again later."
ErrPdf == "Sorry, we couldn't generate your PDF report. This issue has been logged."

\* What fetch may do: resolve with response.ok, resolve with another status, or
\* reject ("Failed to fetch").
WebhookResponses == {"ok", "not ok", "Failed to fetch"}
PdfOutcomes == {"generated", "failed"}

\* ------------------------------------------------------------------------
\* The inputs a user types (bounded)
\* ------------------------------------------------------------------------
AddressNames == {"currentHomeAddress", "newHomeAddress"}
NumericNames == {"currentHomeValue", "newHomePrice", "newInterestRate", "monthlyIncome"}
SampleAddress == "12 Elm St"
AddressValues == {"", SampleAddress}
\* parseFloat(value) || 0 of what is typed into a numeric field: nothing (0), or
\* a number
NumericValues(name) ==
    IF name = "currentHomeValue" THEN {0, 100000}
    ELSE {0, InitialData[name]}

\* The profiles calculateFinancials is evaluated on: what parseFloat(value) || 0
\* leaves in each numeric field (negative numbers can be typed), with and without
\* the details of the new home.
CalcProfiles ==
    { [ InitialData EXCEPT
          !.currentHomeValue = v, !.currentMortgageBalance = b,
          !.currentMonthlyPayment = m, !.newHomePrice = p, !.newInterestRate = r,
          !.monthlyIncome = i, !.otherDebt = o, !.newHomeDetails = nd ] :
        v \in {-1, 0, 100000, 500000, 1000000}, b \in {0, 200000, 250000},
        m \in {-5000, 1800}, p \in {0, 500000, 750000}, r \in {0, 300000, 650000},
        i \in {0, 10000}, o \in {0, 100}, nd \in {Null, SampleDetails} }

FormNames == {"name", "email", "phone"}
FormValues(name) ==
    IF name = "name" THEN { <<"A", "n", "n">> }
    ELSE IF name = "email" THEN { <<"a", "@", "b", ".", "c">> }
    ELSE { <<"5", "5", "5", "0", "1", "0", "0", "1", "0", "0">> }

\* Texts validateForm refuses: a name of blanks, an email without a dot after
\* the @, a phone number of ten characters with nine digits.
InvalidFormValues(name) ==
    IF name = "name" THEN { <<" ">> }
    ELSE IF name = "email" THEN { <<"a", "@", "b">> }
    ELSE { <<"5", "5", "5", "-", "0", "1", "0", "0", "1", "0">> }

\* At most this many requests of one kind are followed in flight.
MaxInFlight == 2
\* At most this many reset timers of handleClose are followed.
MaxTimers == 1

\* ------------------------------------------------------------------------
\* State
\* ------------------------------------------------------------------------
VARIABLES
    data,                  \* App: useState<FinancialData>
    results,               \* App: useState<CalculationResults | null>
    analysis,              \* App: useState<string>
    isLoading,             \* App
    isValueLoading,        \* App
    isHomeDetailsLoading,  \* App
    error,                 \* App: the user-visible error slot
    isModalOpen,           \* App
    analysisReq,           \* getFinancialAnalysis calls awaiting their answer
    valueReq,              \* getEstimatedHomeValue calls awaiting their answer
    detailsReq,            \* getNewHomeDetails calls awaiting their answer
    formData,              \* ConsultantForm: useState({name, email, phone})
    errors,                \* ConsultantForm: the three field errors
    isSubmitted,           \* ConsultantForm
    isSubmitting,          \* ConsultantForm
    isDownloading,         \* ConsultantForm
    submitError,           \* ConsultantForm
    submitReq,             \* webhook POSTs awaiting their response
    pdfReq,                \* generatePdf calls awaiting their result
    timers                 \* reset timers of handleClose that have not fired yet

appVars == <<data, results, analysis, isLoading, isValueLoading,
             isHomeDetailsLoading, error, isModalOpen>>
reqVars == <<analysisReq, valueReq, detailsReq>>
formVars == <<formData, errors, isSubmitted, isSubmitting, isDownloading, submitError,
              submitReq, pdfReq, timers>>
vars == <<appVars, reqVars, formVars>>

Init ==
    /\ data = InitialData
    /\ results = Null
    /\ analysis = ""
    /\ isLoading = FALSE
    /\ isValueLoading = FALSE
    /\ isHomeDetailsLoading = FALSE
    /\ error = NoError
    /\ isModalOpen = FALSE
    /\ analysisReq = 0
    /\ valueReq = 0
    /\ detailsReq = 0
    /\ formData = EmptyForm
    /\ errors = NoErrors
    /\ isSubmitted = FALSE
    /\ isSubmitting = FALSE
    /\ isDownloading = FALSE
    /\ submitError = ""
    /\ submitReq = 0
    /\ pdfReq = 0
    /\ timers = 0

\* ------------------------------------------------------------------------
\* App handlers
\* ------------------------------------------------------------------------
\* The text inputs of the two addresses are disabled while their request loads.
InputEnabled(name) ==
    /\ name = "currentHomeAddress" => ~isValueLoading
    /\ name = "newHomeAddress" => ~isHomeDetailsLoading

handleInputChange(name, value) ==
    /\ InputEnabled(name)
    /\ data' = [data EXCEPT ![name] = value]
    /\ UNCHANGED <<results, analysis, isLoading, isValueLoading, isHomeDetailsLoading,
                   error, isModalOpen, reqVars, formVars>>

\* Mutant: the button is not disabled while the request loads.
GetValueEnabledWhileLoading == data.currentHomeAddress # ""

\* disabled={isValueLoading || !data.currentHomeAddress}
GetValueEnabled == ~isValueLoading /\ data.currentHomeAddress # ""

handleGetValue ==
    /\ GetValueEnabled
    /\ valueReq < MaxInFlight
    /\ isValueLoading' = TRUE
    /\ error' = NoError
    /\ valueReq' = valueReq + 1
    /\ UNCHANGED <<data, results, analysis, isLoading, isHomeDetailsLoading,
                   isModalOpen, analysisReq, detailsReq, formVars>>

\* Mutant: a failed estimate is stored as the value 0.
GetValueDoneStoresFailure(resp) ==
    /\ valueReq > 0
    /\ valueReq' = valueReq - 1
    /\ LET r == EstimatedHomeValue(resp)
       IN  IF r.ok
           THEN /\ data' = [data EXCEPT !.currentHomeValue = r.value]
                /\ error' = error
           ELSE /\ data' = [data EXCEPT !.currentHomeValue = 0]
                /\ error' = r.message
    /\ isValueLoading' = FALSE
    /\ UNCHANGED <<results, analysis, isLoading, isHomeDetailsLoading,
                   isModalOpen, analysisReq, detailsReq, formVars>>

\* Mutant: the estimate is merged into the data of the first render (a stale
\* closure), not into the latest data.
GetValueDoneStaleData(resp) ==
    /\ valueReq > 0
    /\ valueReq' = valueReq - 1
    /\ LET r == EstimatedHomeValue(resp)
       IN  IF r.ok
           THEN /\ data' = [InitialData EXCEPT
                              !.currentHomeValue = r.value,
                              !.currentHomeAddress = data.currentHomeAddress]
                /\ error' = error
           ELSE /\ data' = data
                /\ error' = r.message
    /\ isValueLoading' = FALSE
    /\ UNCHANGED <<results, analysis, isLoading, isHomeDetailsLoading,
                   isModalOpen, analysisReq, detailsReq, formVars>>

\* Mutant: setIsValueLoading(false) is at the end of the try block, there is no
\* finally block.
GetValueDoneNoFinally(resp) ==
    /\ valueReq > 0
    /\ valueReq' = valueReq - 1
    /\ LET r == EstimatedHomeValue(resp)
       IN  IF r.ok
           THEN /\ data' = [data EXCEPT !.currentHomeValue = r.value]
                /\ error' = error
                /\ isValueLoading' = FALSE
           ELSE /\ data' = data
                /\ error' = r.message
                /\ isValueLoading' = isValueLoading
    /\ UNCHANGED <<results, analysis, isLoading, isHomeDetailsLoading,
                   isModalOpen, analysisReq, detailsReq, formVars>>

\* The await of handleGetValue returns or throws; then the finally block.
GetValueDone(resp) ==
    /\ valueReq > 0
    /\ valueReq' = valueReq - 1
    /\ LET r == EstimatedHomeValue(resp)
       IN  IF r.ok
           THEN /\ data' = [data EXCEPT !.currentHomeValue = r.value]
                /\ error' = error
           ELSE /\ data' = data
                /\ error' = r.message
    /\ isValueLoading' = FALSE
    /\ UNCHANGED <<results, analysis, isLoading, isHomeDetailsLoading,
                   isModalOpen, analysisReq, detailsReq, formVars>>

\* disabled={isHomeDetailsLoading || !data.newHomeAddress}
GetDetailsEnabled == ~isHomeDetailsLoading /\ data.newHomeAddress # ""

handleGetNewHomeDetails ==
    /\ GetDetailsEnabled
    /\ detailsReq < MaxInFlight
    /\ isHomeDetailsLoading' = TRUE
    /\ error' = NoError
    /\ detailsReq' = detailsReq + 1
    /\ UNCHANGED <<data, results, analysis, isLoading, isValueLoading,
                   isModalOpen, analysisReq, valueReq, formVars>>

GetDetailsDone(resp) ==
    /\ detailsReq > 0
    /\ detailsReq' = detailsReq - 1
    /\ LET r == NewHomeDetailsOf(resp)
       IN  IF r.ok
           THEN /\ data' = [data EXCEPT !.newHomeDetails = r.value]
                /\ error' = error
           ELSE /\ data' = data
                /\ error' = r.message
    /\ isHomeDetailsLoading' = FALSE
    /\ UNCHANGED <<results, analysis, isLoading, isValueLoading,
                   isModalOpen, analysisReq, valueReq, formVars>>

\* disabled={isLoading}
AnalyzeEnabled == ~isLoading

\* Mutant: setResults runs before the null test.
handleAnalyzeClickStoresNull ==
    /\ AnalyzeEnabled
    /\ analysisReq < MaxInFlight
    /\ error' = CalcError(data)
    /\ results' = CalcReturn(data)
    /\ IF CalcReturn(data) # Null
       THEN /\ isLoading' = TRUE
            /\ analysis' = ""
            /\ analysisReq' = analysisReq + 1
       ELSE UNCHANGED <<isLoading, analysis, analysisReq>>
    /\ UNCHANGED <<data, isValueLoading, isHomeDetailsLoading, isModalOpen,
                   valueReq, detailsReq, formVars>>

handleAnalyzeClick ==
    /\ AnalyzeEnabled
    /\ analysisReq < MaxInFlight
    /\ error' = CalcError(data)
    /\ LET calculatedResults == CalcReturn(data)
       IN  IF calculatedResults # Null
           THEN /\ results' = calculatedResults
                /\ isLoading' = TRUE
                /\ analysis' = ""
                /\ analysisReq' = analysisReq + 1
           ELSE /\ UNCHANGED <<results, isLoading, analysis, analysisReq>>
    /\ UNCHANGED <<data, isValueLoading, isHomeDetailsLoading, isModalOpen,
                   valueReq, detailsReq, formVars>>

\* Mutant: an analysis that failed takes the results back.
AnalysisDoneClearsResults(resp) ==
    /\ analysisReq > 0
    /\ analysisReq' = analysisReq - 1
    /\ analysis' = FinancialAnalysisOf(resp)
    /\ results' = IF resp.failed THEN Null ELSE results
    /\ isLoading' = FALSE
    /\ UNCHANGED <<data, isValueLoading, isHomeDetailsLoading, error,
                   isModalOpen, valueReq, detailsReq, formVars>>

\* getFinancialAnalysis resolves; handleAnalyzeClick continues after its await.
AnalysisDone(resp) ==
    /\ analysisReq > 0
    /\ analysisReq' = analysisReq - 1
    /\ analysis' = FinancialAnalysisOf(resp)
    /\ isLoading' = FALSE
    /\ UNCHANGED <<data, results, isValueLoading, isHomeDetailsLoading, error,
                   isModalOpen, valueReq, detailsReq, formVars>>

\* ------------------------------------------------------------------------
\* The consultant modal and the ConsultantForm handlers
\* ------------------------------------------------------------------------
\* {analysis && !isLoading && ...}: the button that opens the modal is rendered.
OpenModalEnabled == analysis # "" /\ ~isLoading

OpenModal ==
    /\ OpenModalEnabled
    /\ ~isModalOpen
    /\ isModalOpen' = TRUE
    /\ UNCHANGED <<data, results, analysis, isLoading, isValueLoading,
                   isHomeDetailsLoading, error, reqVars, formVars>>

\* {results && <ConsultantForm isOpen={isModalOpen} .../>}; if (!isOpen) return null
FormVisible == results # Null /\ isModalOpen

handleClose ==
    /\ FormVisible
    /\ timers < MaxTimers
    /\ isModalOpen' = FALSE
    /\ timers' = timers + 1
    /\ UNCHANGED <<data, results, analysis, isLoading, isValueLoading,
                   isHomeDetailsLoading, error, reqVars, formData, errors, isSubmitted,
                   isSubmitting, isDownloading, submitError, submitReq, pdfReq>>

\* The callback handleClose gave to setTimeout(..., 300) runs.
ResetTimer ==
    /\ timers > 0
    /\ timers' = timers - 1
    /\ isSubmitted' = FALSE
    /\ formData' = EmptyForm
    /\ errors' = NoErrors
    /\ submitError' = ""
    /\ UNCHANGED <<appVars, reqVars, isSubmitting, isDownloading, submitReq, pdfReq>>

\* The form is rendered while !isSubmitted; its inputs are disabled={isSubmitting}.
FormInputEnabled == FormVisible /\ ~isSubmitted /\ ~isSubmitting

formInputChange(name, value) ==
    /\ FormInputEnabled
    /\ formData' = [formData EXCEPT ![name] = value]
    /\ errors' = IF value # <<>> THEN [errors EXCEPT ![name] = ""] ELSE errors
    /\ UNCHANGED <<appVars, reqVars, isSubmitted, isSubmitting, isDownloading,
                   submitError, submitReq, pdfReq, timers>>

\* <button type="submit" disabled={isSubmitting}>, rendered while !isSubmitted
SubmitEnabled == FormVisible /\ ~isSubmitted /\ ~isSubmitting

\* Mutant: the form is posted whatever validateForm returned.
handleSubmitPostsAnyway ==
    /\ SubmitEnabled
    /\ submitReq < MaxInFlight
    /\ submitError' = ""
    /\ errors' = NewErrors(formData)
    /\ isSubmitting' = TRUE
    /\ submitReq' = submitReq + 1
    /\ UNCHANGED <<appVars, reqVars, formData, isSubmitted, isDownloading, pdfReq, timers>>

handleSubmit ==
    /\ SubmitEnabled
    /\ submitReq < MaxInFlight
    /\ submitError' = ""
    /\ errors' = NewErrors(formData)
    /\ IF validateForm(formData)
       THEN /\ isSubmitting' = TRUE
            /\ submitReq' = submitReq + 1
       ELSE UNCHANGED <<isSubmitting, submitReq>>
    /\ UNCHANGED <<appVars, reqVars, formData, isSubmitted, isDownloading, pdfReq, timers>>

\* Mutant: response.ok is not tested, every response that arrives is a success.
SubmitDoneIgnoresStatus(resp) ==
    /\ submitReq > 0
    /\ submitReq' = submitReq - 1
    /\ IF resp # "Failed to fetch"
       THEN isSubmitted' = TRUE /\ submitError' = submitError
       ELSE /\ isSubmitted' = isSubmitted
            /\ submitError' = ErrSubmitNetwork
    /\ isSubmitting' = FALSE
    /\ UNCHANGED <<appVars, reqVars, formData, errors, isDownloading, pdfReq, timers>>

\* The fetch of handleSubmit settles; then its catch and finally blocks.
SubmitDone(resp) ==
    /\ submitReq > 0
    /\ submitReq' = submitReq - 1
    /\ IF resp = "ok"
       THEN isSubmitted' = TRUE /\ submitError' = submitError
       ELSE /\ isSubmitted' = isSubmitted
            /\ submitError' = IF resp = "Failed to fetch" THEN ErrSubmitNetwork
                               ELSE ErrSubmitOther
    /\ isSubmitting' = FALSE
    /\ UNCHANGED <<appVars, reqVars, formData, errors, isDownloading, pdfReq, timers>>

\* The Download button is rendered while isSubmitted; disabled={isDownloading}.
DownloadEnabled == FormVisible /\ isSubmitted /\ ~isDownloading

handleDownloadPdf ==
    /\ DownloadEnabled
    /\ pdfReq < MaxInFlight
    /\ isDownloading' = TRUE
    /\ submitError' = ""
    /\ pdfReq' = pdfReq + 1
    /\ UNCHANGED <<appVars, reqVars, formData, errors, isSubmitted, isSubmitting,
                   submitReq, timers>>

PdfDone(outcome) ==
    /\ pdfReq > 0
    /\ pdfReq' = pdfReq - 1
    /\ submitError' = IF outcome = "failed" THEN ErrPdf ELSE submitError
    /\ isDownloading' = FALSE
    /\ UNCHANGED <<appVars, reqVars, formData, errors, isSubmitted, isSubmitting,
                   submitReq, timers>>

\* ------------------------------------------------------------------------
\* Specifications
\* ------------------------------------------------------------------------
TypeAddress ==
    \E name \in AddressNames, value \in AddressValues : handleInputChange(name, value)

FillAddress == \E name \in AddressNames : handleInputChange(name, SampleAddress)

TypeNumber ==
    \E name \in NumericNames : \E value \in NumericValues(name) :
        handleInputChange(name, value)

\* The three collaborator requests of App and their answers.
Requests ==
    \/ handleGetValue
    \/ \E resp \in ValueResponses : GetValueDone(resp)
    \/ handleGetNewHomeDetails
    \/ \E resp \in DetailsResponses : GetDetailsDone(resp)
    \/ handleAnalyzeClick
    \/ \E resp \in AnalysisResponses : AnalysisDone(resp)

\* The modal, the handlers of ConsultantForm and the answers to its requests.
FormNext ==
    \/ OpenModal
    \/ handleClose
    \/ ResetTimer
    \/ \E name \in FormNames : \E value \in FormValues(name) : formInputChange(name, value)
    \/ handleSubmit
    \/ \E resp \in WebhookResponses : SubmitDone(resp)
    \/ handleDownloadPdf
    \/ \E outcome \in PdfOutcomes : PdfDone(outcome)

\* The whole page with its five request controls: the addresses are filled in,
\* the numeric inputs keep their initial values.
Next == FillAddress \/ Requests \/ FormNext
Spec == Init /\ [][Next]_vars

\* The home-value model answers with a text that is not a plain integer.
MixedValueAnswer == \E resp \in MixedValueResponses : GetValueDone(resp)

\* The whole page when every collaborator call eventually resolves or rejects:
\* an answer that is awaited is eventually delivered.
Fairness ==
    /\ WF_vars(\E resp \in AnalysisResponses : AnalysisDone(resp))
    /\ WF_vars(\E resp \in ValueResponses : GetValueDone(resp))
    /\ WF_vars(\E resp \in DetailsResponses : GetDetailsDone(resp))
    /\ WF_vars(\E resp \in WebhookResponses : SubmitDone(resp))
    /\ WF_vars(\E outcome \in PdfOutcomes : PdfDone(outcome))
SpecFair == Spec /\ Fairness

\* The App component alone, numeric inputs edited and every kind of home-value
\* answer followed; the modal is never opened.
AppNext == TypeAddress \/ TypeNumber \/ Requests \/ MixedValueAnswer
SpecApp == Init /\ [][AppNext]_vars

\* calculateFinancials over a grid of profiles: the page starts with one of them
\* typed in, and Analyze is clicked.
InitCalc ==
    /\ data \in CalcProfiles
    /\ results = Null
    /\ analysis = ""
    /\ isLoading = FALSE
    /\ isValueLoading = FALSE
    /\ isHomeDetailsLoading = FALSE
    /\ error = NoError
    /\ isModalOpen = FALSE
    /\ analysisReq = 0
    /\ valueReq = 0
    /\ detailsReq = 0
    /\ formData = EmptyForm
    /\ errors = NoErrors
    /\ isSubmitted = FALSE
    /\ isSubmitting = FALSE
    /\ isDownloading = FALSE
    /\ submitError = ""
    /\ submitReq = 0
    /\ pdfReq = 0
    /\ timers = 0

CalcNext ==
    \/ handleAnalyzeClick
    \/ \E resp \in AnalysisResponses : AnalysisDone(resp)
SpecCalc == InitCalc /\ [][CalcNext]_vars

\* ResultsDisplay over a grid of profiles whose two DTIs fall on both sides of
\* the threshold and of each other: with the whole price paid from the proceeds
\* (920000 of 1000000) and the details present, the new payment is 950 a month.
ColourProfiles ==
    { [ InitialData EXCEPT
          !.currentHomeValue = 1000000, !.currentMortgageBalance = 0,
          !.newHomePrice = p, !.currentMonthlyPayment = m, !.monthlyIncome = i,
          !.autoDebt = a, !.studentDebt = 0, !.creditCardDebt = 0,
          !.newHomeDetails = nd ] :
        p \in {920000, 1000000}, m \in {500, 950, 3000}, i \in {3000, 10000},
        a \in {0, 340, 1000}, nd \in {Null, SampleDetails} }
InitColour ==
    /\ data \in ColourProfiles
    /\ results = Null
    /\ analysis = ""
    /\ isLoading = FALSE
    /\ isValueLoading = FALSE
    /\ isHomeDetailsLoading = FALSE
    /\ error = NoError
    /\ isModalOpen = FALSE
    /\ analysisReq = 0
    /\ valueReq = 0
    /\ detailsReq = 0
    /\ formData = EmptyForm
    /\ errors = NoErrors
    /\ isSubmitted = FALSE
    /\ isSubmitting = FALSE
    /\ isDownloading = FALSE
    /\ submitError = ""
    /\ submitReq = 0
    /\ pdfReq = 0
    /\ timers = 0
SpecColour == InitColour /\ [][CalcNext]_vars

\* calculateFinancials over the new interest rate: the rate is typed, from 0
\* over the smallest positive rates of the model to the usual ones, and Analyze
\* is clicked.
RateValues == {0, 1, 2, 100, 300000, 650000}
TypeRate == \E value \in RateValues : handleInputChange("newInterestRate", value)
RateNext == TypeRate \/ CalcNext
SpecRate == Init /\ [][RateNext]_vars

\* The consultant form alone: the page keeps its initial inputs, Analyze is
\* clicked, the modal is opened, and the fields are typed with texts that
\* validateForm accepts, with texts it refuses, or are emptied.
TypeForm ==
    \E name \in FormNames :
        \E value \in FormValues(name) \cup InvalidFormValues(name) \cup {<<>>} :
            formInputChange(name, value)
FormOnlyNext ==
    \/ CalcNext
    \/ OpenModal
    \/ handleClose
    \/ ResetTimer
    \/ TypeForm
    \/ handleSubmit
    \/ \E resp \in WebhookResponses : SubmitDone(resp)
    \/ handleDownloadPdf
    \/ \E outcome \in PdfOutcomes : PdfDone(outcome)
SpecForm == Init /\ [][FormOnlyNext]_vars

\* The analysis card: Analyze is clicked and the analysis service answers with
\* a text of up to MaxLines lines, which ResultsDisplay renders.
MarkdownNext ==
    \/ handleAnalyzeClick
    \/ \E text \in MarkdownTexts : AnalysisDone(Answer(text))
SpecMarkdown == Init /\ [][MarkdownNext]_vars

\* ------------------------------------------------------------------------
\* Properties
\* ------------------------------------------------------------------------
\* The four validation rules, written out.
Rule1Fails(d) == d.currentHomeValue <= 0
Rule2Fails(d) == d.newHomePrice <= 0
Rule3Fails(d) == d.newInterestRate <= 0
Rule4Fails(d) == d.monthlyIncome <= 0
AnyRuleFails(d) == Rule1Fails(d) \/ Rule2Fails(d) \/ Rule3Fails(d) \/ Rule4Fails(d)

ResultFields ==
    {"proceedsFromSale", "newLoanAmount", "newMonthlyPayment", "currentDTI", "newDTI",
     "monthlyPaymentDifference"}

\* C1: an Analyze click leaves in the error slot the message of the first rule
\* that fails, in the order home value, new price, new rate, income, also when
\* several rules fail at once.
C1_FirstFailingRuleWins ==
    [][handleAnalyzeClick =>
         /\ Rule1Fails(data) => error' = ErrHomeValue
         /\ ~Rule1Fails(data) /\ Rule2Fails(data) => error' = ErrNewPrice
         /\ ~Rule1Fails(data) /\ ~Rule2Fails(data) /\ Rule3Fails(data) => error' = ErrNewRate
         /\ ~Rule1Fails(data) /\ ~Rule2Fails(data) /\ ~Rule3Fails(data) /\ Rule4Fails(data)
              => error' = ErrIncome]_vars

\* C1 witness: rules 2, 3 and 4 fail together and the message is rule 2's.
C1_Witness ==
    /\ ~Rule1Fails(data) /\ Rule2Fails(data) /\ Rule3Fails(data) /\ Rule4Fails(data)
    /\ error = ErrNewPrice

\* C2: an Analyze click on which a validation rule fails produces no result,
\* starts no analysis request and leaves results, analysis and isLoading as they
\* were; only the error message changes.
C2_ValidationFailureKeepsState ==
    [][(handleAnalyzeClick /\ AnyRuleFails(data)) =>
         /\ CalcReturn(data) = Null
         /\ analysisReq' = analysisReq
         /\ results' = results
         /\ analysis' = analysis
         /\ isLoading' = isLoading
         /\ data' = data
         /\ error' \in {ErrHomeValue, ErrNewPrice, ErrNewRate, ErrIncome}]_vars

\* C2 witness: earlier results and their analysis are still held while the
\* validation message of a later click is shown.
C2_Witness ==
    /\ results # Null
    /\ analysis # ""
    /\ ~isLoading
    /\ Rule1Fails(data)
    /\ error = ErrHomeValue

\* C3 (as claimed): for a validated profile whose money inputs are all >= 0, the
\* currentDTI and the newDTI of the result are >= 0.
MoneyInputsNonNegative(d) ==
    /\ d.currentHomeValue >= 0 /\ d.currentMortgageBalance >= 0
    /\ d.currentMonthlyPayment >= 0 /\ d.newHomePrice >= 0 /\ d.monthlyIncome >= 0
    /\ d.autoDebt >= 0 /\ d.studentDebt >= 0 /\ d.creditCardDebt >= 0 /\ d.otherDebt >= 0
    /\ d.newHomeDetails # Null =>
         d.newHomeDetails.estimatedTaxes >= 0 /\ d.newHomeDetails.estimatedInsurance >= 0

C3_DTINonNegative ==
    (results # Null /\ MoneyInputsNonNegative(data)) =>
        results.currentDTI >= 0 /\ results.newDTI >= 0

\* C4: calculateFinancials returns null exactly when one of the four rules
\* fails; on every other profile it returns a complete six-field result, and that
\* result is what a click stores.
C4_OnlyValidationRefuses ==
    /\ IF AnyRuleFails(data)
       THEN CalcReturn(data) = Null
       ELSE /\ CalcReturn(data) # Null
            /\ DOMAIN CalcReturn(data) = ResultFields
            /\ \A f \in ResultFields : CalcReturn(data)[f] \in Int
    /\ results # Null => ~AnyRuleFails(data) /\ results = CalcReturn(data)
    /\ isLoading => results # Null

\* C4 witness: a result is held whose newLoanAmount is negative (the down payment
\* exceeds the new home price).
C4_Witness == results # Null /\ results.newLoanAmount < 0

\* C5: proceedsFromSale is currentHomeValue - currentMortgageBalance - 8% of
\* currentHomeValue (in cents: 92 * value - 100 * balance), negative or not.
C5_ProceedsFromSale ==
    results # Null =>
        results.proceedsFromSale =
            92 * data.currentHomeValue - 100 * data.currentMortgageBalance

\* C5 witness: a negative proceedsFromSale is held in the result (example 3 of the
\* specification: value 100000, balance 200000, proceeds -108000).
C5_Witness ==
    /\ results # Null
    /\ data.currentHomeValue = 100000 /\ data.currentMortgageBalance = 200000
    /\ results.proceedsFromSale = -108000 * Cents

\* C6: newLoanAmount is newHomePrice - max(0, proceedsFromSale); with negative
\* proceeds it is newHomePrice exactly, and it never exceeds newHomePrice.
C6_NewLoanAmount ==
    results # Null =>
        /\ results.proceedsFromSale >= 0 =>
             results.newLoanAmount = data.newHomePrice * Cents - results.proceedsFromSale
        /\ results.proceedsFromSale < 0 =>
             results.newLoanAmount = data.newHomePrice * Cents
        /\ results.newLoanAmount <= data.newHomePrice * Cents

\* C6 witness: negative proceeds, and the loan is the whole price.
C6_Witness ==
    /\ results # Null
    /\ results.proceedsFromSale < 0
    /\ results.newLoanAmount = data.newHomePrice * Cents

\* C7: the tax and insurance part of newMonthlyPayment (the payment less
\* principal and interest) is estimatedTaxes / 12 + estimatedInsurance / 12 when
\* newHomeDetails is present, whatever the price, and 1.25% / 12 + 0.5% / 12 of
\* newHomePrice when it is absent.
C7_TaxAndInsurance ==
    results # Null =>
        results.newMonthlyPayment - PrincipalAndInterest(data) =
            IF data.newHomeDetails # Null
            THEN (data.newHomeDetails.estimatedTaxes * Cents) \div 12
                   + (data.newHomeDetails.estimatedInsurance * Cents) \div 12
            ELSE (data.newHomePrice * 125) \div 1200 + (data.newHomePrice * 50) \div 1200

\* C7 witness: details are present (9000 and 2400 a year) and the payment holds
\* 750 + 200 a month for them.
C7_Witness ==
    /\ results # Null
    /\ data.newHomeDetails # Null
    /\ results.newMonthlyPayment - PrincipalAndInterest(data) = 950 * Cents

\* C8: when the calculation of a click yields negative proceeds, the result is
\* stored, the analysis request is started and the warning is in the error slot.
C8_NegativeProceedsWarns ==
    [][(handleAnalyzeClick /\ ~AnyRuleFails(data)
          /\ 92 * data.currentHomeValue < 100 * data.currentMortgageBalance) =>
         /\ results' # Null
         /\ results'.proceedsFromSale < 0
         /\ isLoading'
         /\ analysisReq' = analysisReq + 1
         /\ error' = WarnEquity]_vars

\* C8 witness: a result with negative proceeds is held, its analysis is being
\* requested and the warning is shown.
C8_Witness ==
    /\ results # Null
    /\ results.proceedsFromSale < 0
    /\ isLoading /\ analysisReq = 1
    /\ error = WarnEquity

\* C9: of each of the five controls at most one request is in flight; while one
\* is, the control's loading flag is set and the control is disabled.
C9_OneRequestInFlight ==
    /\ analysisReq <= 1 /\ (analysisReq = 1 => isLoading /\ ~AnalyzeEnabled)
    /\ valueReq <= 1 /\ (valueReq = 1 => isValueLoading /\ ~GetValueEnabled)
    /\ detailsReq <= 1 /\ (detailsReq = 1 => isHomeDetailsLoading /\ ~GetDetailsEnabled)
    /\ submitReq <= 1 /\ (submitReq = 1 => isSubmitting /\ ~SubmitEnabled)
    /\ pdfReq <= 1 /\ (pdfReq = 1 => isDownloading /\ ~DownloadEnabled)

\* C9 witness: all five requests are in flight at once, one of each.
C9_Witness ==
    /\ analysisReq = 1 /\ valueReq = 1 /\ detailsReq = 1
    /\ submitReq = 1 /\ pdfReq = 1

\* A request of the kind has an answer that makes it fail.
ValueFails(resp) == ~EstimatedHomeValue(resp).ok
DetailsFail(resp) == ~NewHomeDetailsOf(resp).ok

\* C10 (as claimed): the failure of any of the three requests sets an error
\* message and leaves data, results and analysis as they were.
C10_FailureLeavesState ==
    [][/\ \A resp \in ValueResponses : (GetValueDone(resp) /\ ValueFails(resp)) =>
            error' = ErrValue /\ data' = data /\ results' = results /\ analysis' = analysis
       /\ \A resp \in DetailsResponses : (GetDetailsDone(resp) /\ DetailsFail(resp)) =>
            error' = ErrDetails /\ data' = data /\ results' = results /\ analysis' = analysis
       /\ \A resp \in AnalysisResponses : (AnalysisDone(resp) /\ resp.failed) =>
            error' # NoError /\ data' = data /\ results' = results /\ analysis' = analysis
      ]_vars

\* C10 (amended): a failed home-value or new-home-details request sets its error
\* message and leaves data, results and analysis as they were, and so does the
\* start of either request.  A failed analysis request sets no error message:
\* its fixed error text replaces analysis, while data, results and the error slot
\* stay as they were.
C10_FailureEffects ==
    [][/\ \A resp \in ValueResponses : (GetValueDone(resp) /\ ValueFails(resp)) =>
            error' = ErrValue /\ data' = data /\ results' = results /\ analysis' = analysis
       /\ \A resp \in DetailsResponses : (GetDetailsDone(resp) /\ DetailsFail(resp)) =>
            error' = ErrDetails /\ data' = data /\ results' = results /\ analysis' = analysis
       /\ (handleGetValue \/ handleGetNewHomeDetails) =>
            data' = data /\ results' = results /\ analysis' = analysis
       /\ \A resp \in AnalysisResponses : (AnalysisDone(resp) /\ resp.failed) =>
            /\ analysis' = ErrAnalysisText
            /\ error' = error /\ data' = data /\ results' = results
      ]_vars

\* C10 witness: an analysis request has failed (its text is in analysis) and a
\* home-value request has failed after it (its message is in the error slot),
\* with the results and the typed address still held.
C10_Witness ==
    /\ analysis = ErrAnalysisText
    /\ error = ErrValue
    /\ results # Null
    /\ data.currentHomeAddress = SampleAddress
    /\ ~isValueLoading /\ ~isLoading

\* The text is one integer and nothing else, and the integer is not zero.
IsSingleNonZeroInteger(text) ==
    /\ Len(text) > 0
    /\ \A i \in 1..Len(text) : IsDigit(text[i])
    /\ \E i \in 1..Len(text) : text[i] # "0"

\* C11 (as claimed): an answer to the home-value request that is a transport
\* error, or a text other than a single non-zero integer, sets the error message
\* and leaves data, currentHomeValue included, as it was.
C11_OnlySingleIntegerAccepted ==
    [][\A resp \in ValueResponses \cup MixedValueResponses :
         (GetValueDone(resp) /\ (resp.failed \/ ~IsSingleNonZeroInteger(resp.body))) =>
             error' = ErrValue /\ data' = data]_vars

\* In the new-home-details answer one of the three fields is missing or falsy.
MissingOrFalsyField(details) ==
    \E f \in {"estimatedTaxes", "estimatedInsurance", "marketTrends"} :
        IF f \in DOMAIN details
        THEN details[f] = (IF f = "marketTrends" THEN "" ELSE 0)
        ELSE TRUE

\* C12: an answer to the new-home-details request in which estimatedTaxes,
\* estimatedInsurance or marketTrends is missing, 0 or "" sets the error message
\* and leaves data as it was: newHomeDetails keeps null or the earlier details.
C12_IncompleteDetailsRefused ==
    [][\A resp \in DetailsResponses :
         (GetDetailsDone(resp) /\ ~resp.failed /\ MissingOrFalsyField(resp.body)) =>
             /\ error' = ErrDetails
             /\ data' = data
             /\ data'.newHomeDetails \in {Null, SampleDetails}]_vars

\* C12 witness: earlier details are held and a later, incomplete answer has been
\* refused: its message is shown and the earlier details are still there.
C12_Witness ==
    /\ data.newHomeDetails = SampleDetails
    /\ error = ErrDetails
    /\ ~isHomeDetailsLoading /\ detailsReq = 0

\* C13: the results slot is null or a complete six-field record in every state;
\* it changes only by an Analyze click whose calculation succeeded, which puts
\* the whole output of that one calculation there; a failure of the analysis,
\* of the value estimate, of the details, of the webhook or of the PDF changes
\* no field of it.
C13_ResultsAllOrNothing ==
    /\ [](results = Null \/ DOMAIN results = ResultFields)
    /\ [][results' # results =>
            /\ handleAnalyzeClick
            /\ results' = CalcReturn(data)
            /\ results' # Null /\ DOMAIN results' = ResultFields
            /\ \A resp \in AnalysisResponses : ~(AnalysisDone(resp) /\ resp.failed)
            /\ \A resp \in ValueResponses : ~(GetValueDone(resp) /\ ValueFails(resp))
            /\ \A resp \in DetailsResponses : ~(GetDetailsDone(resp) /\ DetailsFail(resp))
            /\ \A resp \in WebhookResponses \ {"ok"} : ~SubmitDone(resp)
            /\ ~PdfDone("failed")
          ]_vars

\* C13 witness: the results of a calculation on an estimated home value are held
\* whole after its analysis, a details request, a submission and a PDF have
\* failed.
C13_Witness ==
    /\ results # Null
    /\ data.currentHomeValue = 600000
    /\ results = CalcReturn(data)
    /\ analysis = ErrAnalysisText
    /\ error = ErrDetails
    /\ submitError = ErrPdf

\* C14: a webhook response that is not ok, or a fetch that rejects, sets the
\* submit error, leaves isSubmitted false and puts isSubmitting back to false;
\* it sends nothing: a POST is only ever started by handleSubmit.
C14_SubmitFailure ==
    [][/\ \A resp \in WebhookResponses \ {"ok"} :
            SubmitDone(resp) =>
                (/\ submitError' = (IF resp = "not ok" THEN ErrSubmitOther
                                     ELSE ErrSubmitNetwork)
                 /\ ~isSubmitted'
                 /\ ~isSubmitting'
                 /\ submitReq' = 0)
       /\ (submitReq' > submitReq) => handleSubmit
      ]_vars

\* C14 witness: the submission of a valid form was refused by the webhook: the
\* message is shown, the form is still there and can be submitted again.
C14_Witness ==
    /\ validateForm(formData)
    /\ submitError = ErrSubmitOther
    /\ ~isSubmitted /\ ~isSubmitting /\ submitReq = 0
    /\ SubmitEnabled

\* ResultsDisplay computes the colours when it is given results and is not
\* showing the loading card.
ColoursRendered == results # Null /\ ~isLoading

\* C15: the colour of the DTI difference is one of three classes, decided in
\* this order: red when newDTI > 43, whatever currentDTI is; else amber when
\* newDTI > currentDTI; else green, which is the case newDTI <= 43 and
\* newDTI <= currentDTI, equality included.
C15_DTIColour ==
    ColoursRendered =>
        LET c == dtiDiffColor(results)
            over == results.newDTI > 43 * DTIScale
            up == results.newDTI > results.currentDTI
        IN  /\ c \in {Red, Amber, Green}
            /\ c = Red <=> over
            /\ c = Amber <=> (~over /\ up)
            /\ c = Green <=> (results.newDTI <= 43 * DTIScale
                                /\ results.newDTI <= results.currentDTI)

\* C15 witness: the new DTI equals the current DTI below the threshold, and the
\* colour is green.
C15_Witness ==
    /\ ColoursRendered
    /\ results.newDTI = results.currentDTI
    /\ results.newDTI <= 43 * DTIScale
    /\ dtiDiffColor(results) = Green


\* The two sides of the DTI identity, in cents of a dollar:
\* (newDTI - currentDTI) * monthlyIncome and 100 * monthlyPaymentDifference.
DTIDifferenceTimesIncome ==
    MulDiv((results.newDTI - results.currentDTI) * data.monthlyIncome, Cents, DTIScale)
HundredTimesPaymentDifference == 100 * results.monthlyPaymentDifference

\* C16 (as claimed): for every validated input
\* (newDTI - currentDTI) * monthlyIncome = 100 * monthlyPaymentDifference, and
\* newDTI > currentDTI exactly when monthlyPaymentDifference > 0.
C16_DTIDifferenceExact ==
    results # Null =>
        /\ DTIDifferenceTimesIncome = HundredTimesPaymentDifference
        /\ results.newDTI > results.currentDTI <=> results.monthlyPaymentDifference > 0

\* C16 (amended): monthlyPaymentDifference is newMonthlyPayment less
\* currentMonthlyPayment, and both DTIs are taken over the same debts and the
\* same income, so that (newDTI - currentDTI) * monthlyIncome differs from
\* 100 * monthlyPaymentDifference by less than the rounding of the two divisions
\* (one step of the DTI times the income); newDTI > currentDTI implies
\* monthlyPaymentDifference > 0, and monthlyPaymentDifference > 0 implies
\* newDTI >= currentDTI.
C16_DTIDifference ==
    results # Null =>
        /\ results.monthlyPaymentDifference =
              results.newMonthlyPayment - data.currentMonthlyPayment * Cents
        /\ DTIDifferenceTimesIncome - HundredTimesPaymentDifference < data.monthlyIncome
        /\ HundredTimesPaymentDifference - DTIDifferenceTimesIncome < data.monthlyIncome
        /\ results.newDTI > results.currentDTI => results.monthlyPaymentDifference > 0
        /\ results.monthlyPaymentDifference > 0 => results.newDTI >= results.currentDTI

\* C16 witness: with other debts present the new payment is below the current
\* one and the new DTI below the current DTI, and the two sides of the identity
\* differ by the rounding.
C16_Witness ==
    /\ results # Null
    /\ data.otherDebt > 0
    /\ results.monthlyPaymentDifference < 0
    /\ results.newDTI < results.currentDTI
    /\ DTIDifferenceTimesIncome # HundredTimesPaymentDifference

\* C17 (as claimed): for every new interest rate that passes rule 3 the monthly
\* rate is > 0, so the amortization branch is taken and not newLoanAmount / 360,
\* and the denominator (1 + monthlyRate)^360 - 1 is not zero.
C17_ZeroRateBranchUnreachable ==
    ~Rule3Fails(data) =>
        /\ MonthlyRate(data) > 0
        /\ AmortizationDenominator(data) # 0

\* handleSubmit builds the summary of financialData and calculationResults and
\* posts it: the form is valid.
SummaryPosted == handleSubmit /\ validateForm(formData)

\* C18 (as claimed): whenever a summary is built and posted, the results in it
\* are those of calculateFinancials on the inputs in it: the data and the results
\* given to ConsultantForm are consistent.
C18_SummaryConsistent ==
    [][SummaryPosted => results = CalcReturn(data)]_vars

\* C19 (as claimed): while results with negative proceedsFromSale are held, the
\* warning is in the error slot; the start and the completion of a Get Value or
\* Get Details request do not remove it.
C19_WarningStays ==
    (results # Null /\ results.proceedsFromSale < 0) => error = WarnEquity

\* The fields of data other than the given one are left as they are.
OtherFieldsKept(field) ==
    \A f \in (DOMAIN data) \ {field} : data'[f] = data[f]

\* C20: the completion of a home-value estimate changes no field of data but
\* currentHomeValue, and the completion of a new-home-details request no field
\* but newHomeDetails: every other field keeps the value it has when the answer
\* arrives, edits made while the request was in flight included.
C20_CompletionFrame ==
    [][/\ \A resp \in ValueResponses \cup MixedValueResponses :
            GetValueDone(resp) => OtherFieldsKept("currentHomeValue")
       /\ \A resp \in DetailsResponses :
            GetDetailsDone(resp) => OtherFieldsKept("newHomeDetails")
      ]_vars

\* C20 witness: the estimate and the details have arrived and are stored, next
\* to a new home price, a rate and an income that the user has edited.
C20_Witness ==
    /\ data.currentHomeValue = 600000
    /\ data.newHomeDetails = SampleDetails
    /\ data.newHomePrice = 0 /\ data.newInterestRate = 0 /\ data.monthlyIncome = 0
    /\ ~isValueLoading /\ ~isHomeDetailsLoading

\* C21: when every collaborator call eventually resolves or rejects, each of
\* the five loading flags that is true eventually is false again, whether the
\* call succeeds or fails: no flag stays true for ever, that is, each flag is
\* false again and again.
C21_LoadingFlagsReset ==
    /\ []<>~isLoading
    /\ []<>~isValueLoading
    /\ []<>~isHomeDetailsLoading
    /\ []<>~isSubmitting
    /\ []<>~isDownloading

\* C21 witness: an analysis, a home-value request, a details request and a PDF
\* have failed and a submission has succeeded, and all five flags are false again.
C21_Witness ==
    /\ analysis = ErrAnalysisText
    /\ error \in {ErrValue, ErrDetails}
    /\ isSubmitted /\ submitError = ErrPdf
    /\ ~isLoading /\ ~isValueLoading /\ ~isHomeDetailsLoading
    /\ ~isSubmitting /\ ~isDownloading

\* C22: isSubmitted becomes true only when the POST of a handleSubmit run is
\* answered with an ok status, and a POST is only ever sent by a handleSubmit
\* run whose validateForm accepted the form (name not blank, email matching
\* the pattern, phone with at least 10 digits): a run whose validation fails
\* sends nothing. The PDF download starts only while isSubmitted is true.
C22_SubmittedOnlyAfterValidOk ==
    [][ /\ (isSubmitted' /\ ~isSubmitted) => SubmitDone("ok")
        /\ (submitReq' > submitReq) =>
              /\ handleSubmit
              /\ ~IsBlank(formData.name)
              /\ MatchesEmail(formData.email)
              /\ MatchesPhone(formData.phone)
        /\ (handleSubmit /\ ~validateForm(formData)) =>
              /\ submitReq' = submitReq
              /\ isSubmitting' = isSubmitting
        /\ (submitReq > 0) => isSubmitting
        /\ (pdfReq' > pdfReq) => (isSubmitted /\ handleDownloadPdf)
      ]_vars

\* C22 witness: a form validateForm accepts was posted and answered ok, and
\* the download was started from the confirmation that is shown then.
C22_Witness ==
    /\ isSubmitted
    /\ validateForm(formData)
    /\ isDownloading
    /\ pdfReq > 0
    /\ submitReq = 0

\* The state ConsultantForm is constructed in, as far as C23 names it.
FormInitial ==
    /\ ~isSubmitted
    /\ formData = EmptyForm
    /\ errors = NoErrors
    /\ submitError = ""

\* C23: when the delayed reset of handleClose fires the form is in its initial
\* state (isSubmitted false, the three fields empty, no field error, no submit
\* error), and a form in its initial state leaves it only by a step in which
\* the user types or submits, also while a request sent before the modal was
\* closed is still in flight.
C23_ResetFormStays ==
    [][ /\ ResetTimer => FormInitial'
        /\ (FormInitial /\ ~FormInitial') => (TypeForm \/ handleSubmit)
      ]_vars

\* ResultsDisplay is given results and is not showing the loading card: the
\* analysis text is rendered through simpleMarkdownToHtml.
AnalysisRendered == results # Null /\ ~isLoading

\* The number of lists open after the first i elements of the markup.
UlDepth(html, i) ==
    Cardinality({k \in 1..i : html[k] = "<ul>"})
        - Cardinality({k \in 1..i : html[k] = "</ul>"})

WellNestedLists(html) ==
    /\ \A i \in 0..Len(html) : UlDepth(html, i) \in {0, 1}
    /\ UlDepth(html, Len(html)) = 0
    /\ \A i \in 1..Len(html) :
          /\ html[i] \in {"<li>", "</li>"} => UlDepth(html, i) = 1
          /\ html[i] \in {"<h2>", "</h2>", "<h3>", "</h3>", "<p>", "</p>"}
                => UlDepth(html, i) = 0

\* C24: for every analysis text the markup simpleMarkdownToHtml returns has
\* well-nested lists: every <ul> is closed by exactly one </ul>, also at the
\* end of the text, no list is opened inside a list, every <li> lies inside a
\* list, and no heading or paragraph lies inside a list.
C24_WellNestedLists ==
    AnalysisRendered => WellNestedLists(simpleMarkdownToHtml(analysis))
====
